---- MODULE Spec2Model ----
(***************************************************************************)
(* Model of src/contexts/MusicContext.js: the MusicProvider state, the     *)
(* playback resolver onPlaySong (cancellation, retry loop, commit), the    *)
(* play history, the search and its result merge, the queue navigation.    *)
(*                                                                         *)
(* React state read inside an async handler is the value captured by the   *)
(* closure when the handler was called; state setters act on the live      *)
(* state.  A resolution therefore carries the captured values it reads     *)
(* later (currentSong, isPlaying, searchTerm, playQueue).                  *)
(***************************************************************************)
EXTENDS Integers, Sequences, FiniteSets, TLC

\* ------------------------------------------------------------------ bounds
MaxRes == 2          \* resolutions (onPlaySong calls that pass the guards) per run
MaxRace == 3         \* the same, in the runs that look at overlapping resolutions
MaxHistOps == 2      \* addToHistory/removeFromHistory calls per run of the history runs
MaxHistRes == 1      \* resolutions per run of the history runs
MaxHits == 2         \* hits one provider returns for a search
MaxSearch == 1       \* onSearch calls per run of the search runs
MaxSearchRes == 1    \* resolutions per run of the search runs
MaxQueueOps == 2     \* toggleQueue calls per run of the queue runs
MaxQueueRes == 1     \* resolutions per run of the queue runs

\* ------------------------------------------------------- program constants
MAX_RETRIES == 3
HistoryCap == 50
DefaultQuality == 5

\* ------------------------------------------------------------------ values
\* A JS value that may be undefined/null is a sequence of length 0 or 1.
None == <<>>
Some(v) == <<v>>

\* A URL string, by the parts the WHATWG parser decides on.  defined = FALSE
\* is the JS value undefined.
Url(defined, scheme, host, path) ==
  [defined |-> defined, scheme |-> scheme, host |-> host, path |-> path]
NoUrl == Url(FALSE, "", "", "")
EmptyUrl == Url(TRUE, "", "", "")
BadUrl == Url(TRUE, "", "", "x/1.mp3")
Url1 == Url(TRUE, "http", "x", "/1.mp3")
Url2 == Url(TRUE, "http", "x", "/2.mp3")
GoodUrls == {Url1, Url2}
InvalidUrls == {NoUrl, EmptyUrl, BadUrl}
FetchedUrls == GoodUrls \cup InvalidUrls

SpecialSchemes == {"http", "https", "ftp", "ws", "wss"}

\* !url : undefined and the empty string are falsy
Falsy(url) == ~url.defined \/ (url.scheme = "" /\ url.host = "" /\ url.path = "")

isValidUrlLax(url) == url.defined

\* new URL(url) without a base: needs a scheme, and a host for a special scheme
isValidUrl(url) ==
  /\ url.defined
  /\ url.scheme # ""
  /\ (url.scheme \in SpecialSchemes => url.host # "")

SearchTerm == "abc"
Indices == {0, 1}
NoIndex == -1        \* searchIndex undefined

\* the request /api/sby?platform=..&term=..&index=..&quality=..
Request(platform, term, index, quality) ==
  [platform |-> platform, term |-> term, index |-> index, quality |-> quality]

\* A song object.  lyrics is a sequence of lines, details is None or Some(data).
Song(name, singer, platform, searchIndex, url, requestUrl, lyrics, details) ==
  [name |-> name, singer |-> singer, platform |-> platform,
   searchIndex |-> searchIndex, url |-> url, requestUrl |-> requestUrl,
   lyrics |-> lyrics, details |-> details]

\* what a provider returns for one search hit, tagged as onSearch tags it
Stub(name, platform, searchIndex) ==
  Song(name, "x", platform, searchIndex, NoUrl, None, <<>>, None)

\* what localStorage may hold under 'currentPlayingSong' at mount: nothing, or
\* the song a previous session committed
SavedSong ==
  Song("a", "x", "wy", 0, Url1, Some(Request("wy", SearchTerm, 0, DefaultQuality)),
       <<"la">>, None)
Saved == {None, Some(SavedSong)}

VARIABLES
  songs,               \* search-result list
  currentSong,         \* None or Some(song)
  isPlaying,
  isLoading,
  playHistory,
  playQueue,
  abortControllerRef,  \* 0 (null) or the id of the resolution whose controller it holds
  res,                 \* the onPlaySong invocations that passed the guards
  cap,                 \* how many resolutions this run may start
  stamp,               \* identity -> when it was last added to the history
  clock,               \* history operations / toggleQueue calls so far
  lastCall,            \* "busy"/"skip": the last step was an onPlaySong call that
                       \* returned at line 139 / line 147; "direct": it made a
                       \* queue neighbour current without a fetch; "" otherwise
  isSearching,
  pending,             \* onSearch calls waiting for their two fetches
  nsearch,             \* onSearch calls so far
  lastSearch           \* None, or Some(what the two providers answered and whether
                       \* '搜索失败' was shown) when the last step ended a search

vars == <<songs, currentSong, isPlaying, isLoading, playHistory,
          playQueue, abortControllerRef, res, cap, stamp, clock, lastCall,
          isSearching, pending, nsearch, lastSearch>>

searchVars == <<isSearching, pending, nsearch, lastSearch>>

\* ------------------------------------------------------------- song lists
isSameSong(song1, song2) ==
  /\ song1.name = song2.name
  /\ song1.singer = song2.singer
  /\ song1.platform = song2.platform

\* prev.filter(s => !(same identity as song))
removeFromHistory(prev, song) ==
  SelectSeq(prev, LAMBDA s : ~isSameSong(s, song))

\* the first n elements: seq.slice(0, n)
Slice(seq, n) == SubSeq(seq, 1, IF Len(seq) < n THEN Len(seq) ELSE n)

\* the entry addToHistory stores: id, name, singer, cover, url, lyrics,
\* platform and the rebuilt requestUrl; searchIndex and details are dropped
simplifiedSong(song, selectedQuality) ==
  Song(song.name, song.singer, song.platform, NoIndex, song.url,
       Some(Request(song.platform, SearchTerm, song.searchIndex, selectedQuality)),
       song.lyrics, None)

addToHistoryUncapped(prev, song) ==
  <<simplifiedSong(song, DefaultQuality)>> \o removeFromHistory(prev, song)

addToHistoryKeepOld(prev, song) ==
  Slice(<<simplifiedSong(song, DefaultQuality)>> \o prev, HistoryCap)

addToHistory(prev, song) ==
  Slice(<<simplifiedSong(song, DefaultQuality)>> \o removeFromHistory(prev, song),
        HistoryCap)

\* prev.map(song => isSameSong(song, updatedSong) ? {...updatedSong} : song)
replaceInPlace(prev, updatedSong) ==
  [k \in 1..Len(prev) |->
     IF isSameSong(prev[k], updatedSong) THEN updatedSong ELSE prev[k]]

Range(seq) == {seq[k] : k \in 1..Len(seq)}

\* ------------------------------------------------------------ the resolver
\* currentSong?.url
urlOf(cs) == IF cs = None THEN NoUrl ELSE cs[1].url

RejectBusyRetryOnly(loading, isRetry) == loading /\ isRetry

\* line 139: if (isLoading && !isRetry) return
RejectBusy(loading, isRetry) == loading /\ ~isRetry

\* lines 144-148: a controller is held, the urls are equal and this is no retry
SkipSameUrl(ref, cs, song, isRetry) ==
  ref # 0 /\ urlOf(cs) = song.url /\ ~isRetry

shouldAutoPlayAlways(isRetry, playing) == TRUE

\* line 162
shouldAutoPlay(isRetry, playing) == IF isRetry THEN playing ELSE TRUE

\* line 166: song.requestUrl || `/api/sby?...index=${song.searchIndex || index}...`
indexOf(song, index) ==
  IF song.searchIndex # NoIndex /\ song.searchIndex # 0 THEN song.searchIndex ELSE index

requestUrlOf(song, index, quality) ==
  IF song.requestUrl # None THEN song.requestUrl[1]
  ELSE Request(song.platform, SearchTerm, indexOf(song, index), quality)

\* What the fetch of one attempt ends with.  A provider-A (wy) body carries
\* mp3/lyric at top level, a provider-B (qq) body nests url under data.
OkResponse(platform, url) ==
  [kind |-> "ok",
   mp3 |-> IF platform = "wy" THEN url ELSE NoUrl,
   lyric |-> IF platform = "wy" THEN <<"la">> ELSE <<>>,
   data |-> IF platform = "qq" THEN Some([url |-> url]) ELSE None]
Failure(kind) == [kind |-> kind, mp3 |-> NoUrl, lyric |-> <<>>, data |-> None]

FailureKinds == {"non200", "network", "security"}

\* an aborted signal makes fetch (or the body read) reject with AbortError
Responses(r) ==
  IF r.aborted THEN {Failure("abort")}
  ELSE {Failure(k) : k \in FailureKinds}
       \cup {OkResponse(r.requestUrl.platform, u) : u \in FetchedUrls}

\* line 173
newUrlOf(song, resp) ==
  IF song.platform = "qq"
  THEN (IF resp.data = None THEN NoUrl ELSE resp.data[1].url)
  ELSE resp.mp3

\* lines 180-191
updatedSongOf(r, resp) ==
  Song(r.song.name, r.song.singer, r.song.platform, indexOf(r.song, r.index),
       newUrlOf(r.song, resp), Some(r.requestUrl),
       IF r.song.platform = "qq" THEN <<>> ELSE resp.lyric,
       IF r.song.platform = "qq" THEN resp.data ELSE None)

\* lines 164-220: how one attempt ends
\*   "same"      success, the url is the captured current song's: return true
\*   "commit"    success, valid url: commit and return true
\*   "invalid"   success, the url is missing or fails isValidUrl: throw
\*   "security"  SecurityError / CORS: notify, stop playing, return false
\*   "abort"     AbortError: return false
\*   "failed"    the fetch rejected or the response is not success/200: throw
\* "invalid" and "failed" are caught at line 205: lastError = error, return false
tryPlay(r, resp) ==
  IF resp.kind = "ok" THEN
    IF r.capturedUrl = newUrlOf(r.song, resp) THEN "same"
    ELSE IF Falsy(newUrlOf(r.song, resp)) \/ ~isValidUrl(newUrlOf(r.song, resp))
         THEN "invalid"
         ELSE "commit"
  ELSE IF resp.kind = "security" THEN "security"
  ELSE IF resp.kind = "abort" THEN "abort"
  ELSE "failed"

Thrown(out) == out \in {"invalid", "failed"}

\* the error object a failed attempt leaves in lastError
\* (identified by the attempt that threw it; 0 is new Error('播放失败'))
ErrorOf(attempt) == attempt
GenericError == 0

MayRetryOffByOne(retryCount) == retryCount <= MAX_RETRIES

\* line 224: the loop goes on while retryCount < MAX_RETRIES
MayRetry(retryCount) == retryCount < MAX_RETRIES

\* lines 245-247: the finalizer clears the ref when its own signal is aborted
RefAfterFinally(ref, aborted) == IF aborted THEN 0 ELSE ref

\* line 248
LoadingAfterFinally(loading, aborted) == FALSE

NewResolution(song, index, isRetry) ==
  [song |-> song, index |-> index, isRetry |-> isRetry,
   quality |-> DefaultQuality,
   requestUrl |-> requestUrlOf(song, index, DefaultQuality),
   shouldAutoPlay |-> shouldAutoPlay(isRetry, isPlaying),
   capturedUrl |-> urlOf(currentSong),
   capturedQueue |-> playQueue,
   aborted |-> FALSE, pc |-> "fetch",
   retryCount |-> 0, lastError |-> None,
   \* the record of what happened, for the properties: how the last attempt
   \* ended, the delays waited, the attempt that committed, the errors shown, the fetches issued,
   \* isPlaying at the call, whether a later resolution started meanwhile,
   \* whether a step of this resolution changed currentSong, isPlaying, the
   \* history or the search list, the song a queue step made current meanwhile
   attempts |-> 1, lastOut |-> "", delays |-> 0, committed |-> 0,
   securityShown |-> 0, surfaced |-> <<>>, sawPlaying |-> isPlaying,
   superseded |-> FALSE, changed |-> FALSE, overtaken |-> None]

\* A finished invocation leaves nothing behind but its controller, which the
\* ref may still hold: its record is kept for one state and then cleared.
Gone ==
  [song |-> Stub("", "", NoIndex), index |-> NoIndex, isRetry |-> FALSE,
   quality |-> DefaultQuality,
   requestUrl |-> Request("", "", NoIndex, DefaultQuality),
   shouldAutoPlay |-> FALSE, capturedUrl |-> NoUrl, capturedQueue |-> <<>>,
   aborted |-> FALSE, pc |-> "gone", retryCount |-> 0, lastError |-> None,
   attempts |-> 0, lastOut |-> "", delays |-> 0, committed |-> 0,
   securityShown |-> 0, surfaced |-> <<>>, sawPlaying |-> FALSE,
   superseded |-> FALSE, changed |-> FALSE, overtaken |-> None]

Live(rs) == [k \in 1..Len(rs) |-> IF rs[k].pc \in {"done", "gone"} THEN Gone ELSE rs[k]]

InFlight(k) == res[k].pc \in {"fetch", "delay"}

\* ------------------------------------------------------------------ search
\* lines 364-385
RECURSIVE interleaveFrom(_, _, _)
interleaveFrom(wy, qq, i) ==
  IF i > Len(wy) /\ i > Len(qq) THEN <<>>
  ELSE (IF i <= Len(wy) THEN <<wy[i]>> ELSE <<>>)
       \o (IF i <= Len(qq) THEN <<qq[i]>> ELSE <<>>)
       \o interleaveFrom(wy, qq, i + 1)

interleaveNone(combined) == combined

interleaveResults(combined) ==
  interleaveFrom(SelectSeq(combined, LAMBDA s : s.platform = "wy"),
                 SelectSeq(combined, LAMBDA s : s.platform = "qq"), 1)

\* ------------------------------------------------------------------- state
\* lines 105-128: the list a search leaves when each provider returned one
\* hit for the same song
FirstSearch ==
  interleaveResults(<<Stub("a", "wy", 0)>> \o <<Stub("a", "qq", 0)>>)

\* useState initial values, the mount effect of lines 30-48, a first search
Init ==
  /\ songs = FirstSearch
  /\ currentSong \in Saved
  /\ isPlaying = FALSE
  /\ isLoading = FALSE
  /\ playHistory = <<>>
  /\ playQueue = <<>>
  /\ abortControllerRef = 0
  /\ res = <<>>
  /\ cap = MaxRes
  /\ stamp = <<>>
  /\ clock = 0
  /\ lastCall = ""
  /\ isSearching = FALSE
  /\ pending = 0
  /\ nsearch = 0
  /\ lastSearch = None

\* the songs the interface can hand to a handler
Shown == Range(songs) \cup Range(playHistory) \cup Range(playQueue) \cup Range(currentSong)

\* controller.abort() on the controller the ref holds
AbortHeld(rs) ==
  [k \in 1..Len(rs) |->
     IF k = abortControllerRef /\ rs[k].pc # "gone"
     THEN [rs[k] EXCEPT !.aborted = TRUE] ELSE rs[k]]

\* the resolutions still in flight see a later one start
Superseded(rs) ==
  [k \in 1..Len(rs) |->
     IF rs[k].pc \in {"fetch", "delay"} THEN [rs[k] EXCEPT !.superseded = TRUE] ELSE rs[k]]

\* lines 138-222, up to the first await: the guards, the cancellation of the
\* held controller, the new controller, setIsLoading(true), the first fetch
PlaySong(song, index, isRetry) ==
  IF RejectBusy(isLoading, isRetry) \/ SkipSameUrl(abortControllerRef, currentSong, song, isRetry)
  THEN /\ res' = Live(res)
       /\ UNCHANGED <<abortControllerRef, isLoading>>
  ELSE /\ Len(res) < cap
       /\ res' = Append(Superseded(AbortHeld(Live(res))), NewResolution(song, index, isRetry))
       /\ abortControllerRef' = Len(res) + 1
       /\ isLoading' = TRUE

onPlaySong(song, index, isRetry) ==
  /\ PlaySong(song, index, isRetry)
  /\ lastCall' = IF RejectBusy(isLoading, isRetry) THEN "busy"
                  ELSE IF SkipSameUrl(abortControllerRef, currentSong, song, isRetry)
                  THEN "skip" ELSE ""
  /\ UNCHANGED <<songs, currentSong, isPlaying, playHistory, playQueue, cap>>

\* usePlayQueue().toggleQueue: remove the song if it is queued, else append it
toggleQueue(queue, song) ==
  IF \E k \in 1..Len(queue) : isSameSong(queue[k], song)
  THEN SelectSeq(queue, LAMBDA s : ~isSameSong(s, song))
  ELSE Append(queue, song)

\* lines 253-269 on the queue: queued (as the closure saw it) => toggle twice
updateQueue(queue, captured, updatedSong) ==
  IF \E k \in 1..Len(captured) : isSameSong(captured[k], updatedSong)
  THEN toggleQueue(toggleQueue(queue, updatedSong), updatedSong)
  ELSE queue

\* lines 197-200: updateSongData, setCurrentSong, setIsPlaying, addToHistory
Commit(r, updatedSong) ==
  /\ playHistory' = addToHistory(replaceInPlace(playHistory, updatedSong), updatedSong)
  /\ playQueue' = updateQueue(playQueue, r.capturedQueue, updatedSong)
  /\ songs' = replaceInPlace(songs, updatedSong)
  /\ currentSong' = Some(updatedSong)
  /\ isPlaying' = r.shouldAutoPlay

\* lines 244-249
Finally(r) ==
  /\ abortControllerRef' = RefAfterFinally(abortControllerRef, r.aborted)
  /\ isLoading' = LoadingAfterFinally(isLoading, r.aborted)

\* the fetch of resolution i settles: the rest of tryPlay, then the loop body
\* up to the next await (the delay) or to the end of onPlaySong
FetchDone(i, resp) ==
  /\ res[i].pc = "fetch"
  /\ resp \in Responses(res[i])
  /\ lastCall' = ""
  /\ UNCHANGED <<cap>>
  /\ LET r == res[i]
         out == tryPlay(r, resp)
         attempt == r.retryCount + 1
         logged == [r EXCEPT !.lastOut = out]
     IN
     IF out \in {"same", "commit"} THEN
       \* if (success) return;  -> finally
       /\ IF out = "commit"
          THEN /\ Commit(r, updatedSongOf(r, resp))
               /\ res' = [Live(res) EXCEPT ![i] = [logged EXCEPT !.pc = "done", !.committed = attempt,
                                                                !.changed = TRUE]]
          ELSE /\ UNCHANGED <<playHistory, playQueue, songs, currentSong, isPlaying>>
               /\ res' = [Live(res) EXCEPT ![i] = [logged EXCEPT !.pc = "done"]]
       /\ Finally(r)
     ELSE
       LET failed ==
             IF out = "security"
             THEN [logged EXCEPT !.securityShown = @ + 1,
                                 !.changed = @ \/ isPlaying]
             ELSE IF Thrown(out)
             THEN [logged EXCEPT !.lastError = Some(ErrorOf(attempt))]
             ELSE logged
       IN
       /\ isPlaying' = IF out = "security" THEN FALSE ELSE isPlaying
       /\ UNCHANGED <<playHistory, playQueue, songs, currentSong>>
       /\ IF r.aborted THEN
            \* if (currentController.signal.aborted) return;  -> finally
            /\ res' = [Live(res) EXCEPT ![i] = [failed EXCEPT !.pc = "done"]]
            /\ Finally(r)
          ELSE IF MayRetry(r.retryCount + 1) THEN
            \* retryCount++, the "retrying" notice, await the 1 s delay
            /\ res' = [Live(res) EXCEPT ![i] = [failed EXCEPT !.retryCount = @ + 1,
                                                       !.delays = @ + 1,
                                                       !.pc = "delay"]]
            /\ UNCHANGED <<abortControllerRef, isLoading>>
          ELSE
            \* throw lastError || new Error(..)  -> catch: message.error -> finally
            /\ res' = [Live(res) EXCEPT ![i] =
                 [failed EXCEPT !.retryCount = @ + 1,
                                !.surfaced = Append(@, IF failed.lastError = None
                                                       THEN GenericError
                                                       ELSE failed.lastError[1]),
                                !.pc = "done"]]
            /\ Finally(r)

\* the 1 s delay of resolution i ends: the loop test, tryPlay again, the fetch
DelayDone(i) ==
  /\ res[i].pc = "delay"
  /\ res' = [Live(res) EXCEPT ![i] = [res[i] EXCEPT !.pc = "fetch", !.attempts = @ + 1,
                                                !.lastOut = ""]]
  /\ lastCall' = ""
  /\ UNCHANGED <<songs, currentSong, isPlaying, isLoading, playHistory,
                 playQueue, abortControllerRef, cap>>

\* the exposed addToHistory (line 353) and removeFromHistory (line 342)
addToHistoryCall(song) ==
  /\ playHistory' = addToHistory(playHistory, song)
  /\ res' = Live(res)
  /\ lastCall' = ""
  /\ UNCHANGED <<songs, currentSong, isPlaying, isLoading, playQueue,
                 abortControllerRef, cap>>

removeFromHistoryCall(song) ==
  /\ playHistory' = removeFromHistory(playHistory, song)
  /\ res' = Live(res)
  /\ lastCall' = ""
  /\ UNCHANGED <<songs, currentSong, isPlaying, isLoading, playQueue,
                 abortControllerRef, cap>>

\* a song of the search list is chosen, as a fresh request or as a retry
Play ==
  \E song \in Range(songs), isRetry \in BOOLEAN :
    onPlaySong(song, song.searchIndex, isRetry)

Fetched == \E i \in 1..Len(res) : \E resp \in Responses(res[i]) : FetchDone(i, resp)

Delayed == \E i \in 1..Len(res) : DelayDone(i)

Next ==
  \/ Play /\ UNCHANGED <<stamp, clock>> /\ UNCHANGED searchVars
  \/ Fetched /\ UNCHANGED <<stamp, clock>> /\ UNCHANGED searchVars
  \/ Delayed /\ UNCHANGED <<stamp, clock>> /\ UNCHANGED searchVars

Spec == Init /\ [][Next]_vars

\* the same program, allowed one more resolution
InitRace ==
  /\ songs = FirstSearch
  /\ currentSong = None
  /\ isPlaying = FALSE
  /\ isLoading = FALSE
  /\ playHistory = <<>>
  /\ playQueue = <<>>
  /\ abortControllerRef = 0
  /\ res = <<>>
  /\ cap = MaxRace
  /\ stamp = <<>>
  /\ clock = 0
  /\ lastCall = ""
  /\ isSearching = FALSE
  /\ pending = 0
  /\ nsearch = 0
  /\ lastSearch = None

SpecRace == InitRace /\ [][Next]_vars

\* ------------------------------------------------------- the history runs
\* Songs are numbered; song n is the n-th one played.
Played(n) ==
  Song(ToString(n), "x", "wy", n, Url1,
       Some(Request("wy", SearchTerm, n, DefaultQuality)), <<"la">>, None)
Ident(song) == <<song.name, song.singer, song.platform>>

\* the history after songs 1..n were played in that order
HistoryOf(n) == [k \in 1..n |-> simplifiedSong(Played(n + 1 - k), DefaultQuality)]

HistLens == {0, 1, HistoryCap - 1, HistoryCap}
HistSongs == {Played(n) : n \in {1, HistoryCap, HistoryCap + 1}}
AllSongs == {Played(n) : n \in 1..(HistoryCap + 1)}
NumberOf(id) == CHOOSE m \in 1..(HistoryCap + 1) : Ident(Played(m)) = id

InitHist ==
  /\ \E n \in HistLens :
       /\ playHistory = HistoryOf(n)
  \* song m was added before the run began, the later the nearer to 0
  /\ stamp = [id \in {Ident(s) : s \in AllSongs} |-> NumberOf(id) - HistoryCap - 1]
  /\ clock = 0
  /\ songs = <<Stub(ToString(1), "wy", 1), Stub(ToString(HistoryCap + 1), "wy", HistoryCap + 1)>>
  /\ currentSong = None
  /\ isPlaying = FALSE
  /\ isLoading = FALSE
  /\ playQueue = <<>>
  /\ abortControllerRef = 0
  /\ res = <<>>
  /\ cap = MaxHistRes
  /\ lastCall = ""
  /\ isSearching = FALSE
  /\ pending = 0
  /\ nsearch = 0
  /\ lastSearch = None

Touch(song) == stamp' = [stamp EXCEPT ![Ident(song)] = clock + 1]

\* The history runs take their plays from clicks only (isRetry = false), so
\* the resolutions that feed the history follow one another.
PlayFresh == \E song \in Range(songs) : onPlaySong(song, song.searchIndex, FALSE)

NextHist ==
  \/ /\ clock < MaxHistOps
     /\ \E song \in HistSongs : addToHistoryCall(song) /\ Touch(song)
     /\ clock' = clock + 1
     /\ UNCHANGED searchVars
  \/ /\ clock < MaxHistOps
     /\ \E song \in HistSongs : removeFromHistoryCall(song)
     /\ clock' = clock + 1
     /\ UNCHANGED stamp
     /\ UNCHANGED searchVars
  \/ PlayFresh /\ UNCHANGED <<stamp, clock>> /\ UNCHANGED searchVars
  \/ /\ Fetched
     /\ IF playHistory' # playHistory
        THEN Touch(playHistory'[1]) /\ clock' = clock + 1
        ELSE UNCHANGED <<stamp, clock>>
     /\ UNCHANGED searchVars
  \/ Delayed /\ UNCHANGED <<stamp, clock>> /\ UNCHANGED searchVars

SpecHist == InitHist /\ [][NextHist]_vars

\* --------------------------------------------------------- the queue runs
\* usePlayQueue().getNextSong / getPreviousSong: the queue entry after / before
\* the entry of the current song's identity, if there is one
PlaceOf(queue, song) ==
  IF \E k \in 1..Len(queue) : isSameSong(queue[k], song)
  THEN CHOOSE k \in 1..Len(queue) :
         /\ isSameSong(queue[k], song)
         /\ \A j \in 1..(k - 1) : ~isSameSong(queue[j], song)
  ELSE 0

getNextSong(queue, cs) ==
  IF cs = None \/ PlaceOf(queue, cs[1]) = 0 \/ PlaceOf(queue, cs[1]) = Len(queue)
  THEN None
  ELSE Some(queue[PlaceOf(queue, cs[1]) + 1])

getPreviousSong(queue, cs) ==
  IF cs = None \/ PlaceOf(queue, cs[1]) <= 1
  THEN None
  ELSE Some(queue[PlaceOf(queue, cs[1]) - 1])

HasUrlAlways(song) == TRUE

\* if (nextSong.url)
HasUrl(song) == ~Falsy(song.url)

\* the resolutions in flight see a queue step make another song current
Overtaken(rs, song) ==
  [k \in 1..Len(rs) |->
     IF rs[k].pc \in {"fetch", "delay"} THEN [rs[k] EXCEPT !.overtaken = Some(song)] ELSE rs[k]]

\* lines 287-294, 301-308, 314-321: the neighbour is made current at once
\* when it has a url, and is handed to onPlaySong when it has none
GoTo(neighbour) ==
  IF neighbour = None THEN
    /\ res' = Live(res)
    /\ lastCall' = ""
    /\ UNCHANGED <<songs, currentSong, isPlaying, isLoading, playHistory, playQueue,
                   abortControllerRef, cap>>
  ELSE IF HasUrl(neighbour[1]) THEN
    /\ currentSong' = neighbour
    /\ isPlaying' = TRUE
    /\ res' = Overtaken(Live(res), neighbour[1])
    /\ lastCall' = "direct"
    /\ UNCHANGED <<songs, isLoading, playHistory, playQueue, abortControllerRef, cap>>
  ELSE onPlaySong(neighbour[1], neighbour[1].searchIndex, FALSE)

\* lines 298-309
playPreviousSong ==
  IF currentSong = None THEN GoTo(None) ELSE GoTo(getPreviousSong(playQueue, currentSong))

\* lines 311-322
playNextSong ==
  IF currentSong = None THEN GoTo(None) ELSE GoTo(getNextSong(playQueue, currentSong))

\* lines 284-296: the effect, when the audio element reports ended
autoAdvance ==
  /\ ~isPlaying /\ currentSong # None /\ ~isLoading
  /\ GoTo(getNextSong(playQueue, currentSong))

\* the exposed toggleQueue (line 348), on a song the interface shows
toggleQueueCall(song) ==
  /\ playQueue' = toggleQueue(playQueue, song)
  /\ res' = Live(res)
  /\ lastCall' = ""
  /\ UNCHANGED <<songs, currentSong, isPlaying, isLoading, playHistory,
                 abortControllerRef, cap>>

\* what localStorage holds under 'playHistory' at mount: two songs a previous
\* session played, the provider-qq one last
SavedOther ==
  Song("a", "x", "qq", 0, Url2, Some(Request("qq", SearchTerm, 0, DefaultQuality)),
       <<>>, Some([url |-> Url2]))
SavedHistory == addToHistory(addToHistory(<<>>, SavedSong), SavedOther)

InitQueue ==
  /\ songs = FirstSearch
  /\ currentSong = Some(SavedSong)
  /\ isPlaying = FALSE
  /\ isLoading = FALSE
  /\ playHistory = SavedHistory
  /\ playQueue = <<>>
  /\ abortControllerRef = 0
  /\ res = <<>>
  /\ cap = MaxQueueRes
  /\ stamp = <<>>
  /\ clock = 0
  /\ lastCall = ""
  /\ isSearching = FALSE
  /\ pending = 0
  /\ nsearch = 0
  /\ lastSearch = None

Toggled ==
  /\ clock < MaxQueueOps
  /\ clock' = clock + 1
  /\ \E song \in Shown : toggleQueueCall(song)

NextQueue ==
  \/ Toggled /\ UNCHANGED stamp /\ UNCHANGED searchVars
  \/ playNextSong /\ UNCHANGED <<stamp, clock>> /\ UNCHANGED searchVars
  \/ playPreviousSong /\ UNCHANGED <<stamp, clock>> /\ UNCHANGED searchVars
  \/ autoAdvance /\ UNCHANGED <<stamp, clock>> /\ UNCHANGED searchVars
  \/ PlayFresh /\ UNCHANGED <<stamp, clock>> /\ UNCHANGED searchVars
  \/ Fetched /\ UNCHANGED <<stamp, clock>> /\ UNCHANGED searchVars
  \/ Delayed /\ UNCHANGED <<stamp, clock>> /\ UNCHANGED searchVars

SpecQueue == InitQueue /\ [][NextQueue]_vars

\* -------------------------------------------------------- the search runs
\* what a provider lists for the term: n hits, ranked
HitNames == <<"a", "b", "c", "d">>
Hits(n) == [k \in 1..n |-> [name |-> HitNames[k], singer |-> "x"]]

\* How the fetch of one provider ends: "reject" the fetch or the body read
\* rejects; "fail" success is false; "code" data.code is not 200; "ok" a list
\* of hits; "one" (provider qq) data.data is a single hit, not an array
SearchFailures == {"reject", "fail", "code"}
SearchResponse(kind, hits) == [kind |-> kind, hits |-> hits]
WyResponses ==
  {SearchResponse(k, <<>>) : k \in SearchFailures}
    \cup {SearchResponse("ok", Hits(n)) : n \in 0..MaxHits}
QqResponses == WyResponses \cup {SearchResponse("one", Hits(1))}

\* lines 108-114 and 119-125: each hit tagged with its provider and its rank
Tagged(hits, platform) ==
  [k \in 1..Len(hits) |-> Stub(hits[k].name, platform, k - 1)]

\* lines 107 and 117: a provider contributes when success && data.code === 200
Contribution(resp, platform) ==
  IF resp.kind \in {"ok", "one"} THEN Tagged(resp.hits, platform) ELSE <<>>

\* lines 96-103: the term is not blank; setIsSearching(true), the two fetches
onSearchStart ==
  /\ nsearch < MaxSearch
  /\ nsearch' = nsearch + 1
  /\ pending' = pending + 1
  /\ isSearching' = TRUE
  /\ lastSearch' = None
  /\ res' = Live(res)
  /\ lastCall' = ""
  /\ UNCHANGED <<songs, currentSong, isPlaying, isLoading, playHistory, playQueue,
                 abortControllerRef, cap, stamp, clock>>

\* lines 100-134 after the await: Promise.all rejects when either fetch does
onSearchDone(wy, qq) ==
  /\ pending > 0
  /\ pending' = pending - 1
  /\ isSearching' = FALSE
  /\ IF wy.kind = "reject" \/ qq.kind = "reject"
     THEN /\ lastSearch' = Some([wy |-> wy, qq |-> qq, error |-> TRUE])
          /\ UNCHANGED songs
     ELSE /\ lastSearch' = Some([wy |-> wy, qq |-> qq, error |-> FALSE])
          /\ songs' = interleaveResults(Contribution(wy, "wy") \o Contribution(qq, "qq"))
  /\ res' = Live(res)
  /\ lastCall' = ""
  /\ UNCHANGED <<nsearch, currentSong, isPlaying, isLoading, playHistory, playQueue,
                 abortControllerRef, cap, stamp, clock>>

Searched == \E wy \in WyResponses, qq \in QqResponses : onSearchDone(wy, qq)

\* a song of the list is clicked; the caller passes its position in the list
PlayAt ==
  \E k \in 1..Len(songs) : onPlaySong(songs[k], k - 1, FALSE)

InitSearch ==
  /\ songs = <<>>
  /\ currentSong = None
  /\ isPlaying = FALSE
  /\ isLoading = FALSE
  /\ playHistory = <<>>
  /\ playQueue = <<>>
  /\ abortControllerRef = 0
  /\ res = <<>>
  /\ cap = MaxSearchRes
  /\ stamp = <<>>
  /\ clock = 0
  /\ lastCall = ""
  /\ isSearching = FALSE
  /\ pending = 0
  /\ nsearch = 0
  /\ lastSearch = None

NextSearch ==
  \/ onSearchStart
  \/ Searched
  \/ PlayAt /\ lastSearch' = None /\ UNCHANGED <<stamp, clock, isSearching, pending, nsearch>>
  \/ Fetched /\ lastSearch' = None /\ UNCHANGED <<stamp, clock, isSearching, pending, nsearch>>
  \/ Delayed /\ lastSearch' = None /\ UNCHANGED <<stamp, clock, isSearching, pending, nsearch>>

SpecSearch == InitSearch /\ [][NextSearch]_vars

\* ------------------------------------------------------------- properties
Resolutions == 1..Len(res)
Uncancelled(k) == InFlight(k) /\ ~res[k].aborted

\* C1: if resolution B is started while resolution A is in flight, A never
\* commits, and B's success with a valid URL is committed as the current song.
C1_SupersededNeverCommits ==
  \A k \in Resolutions :
    /\ res[k].superseded => res[k].committed = 0
    /\ (res[k].pc = "done" /\ res[k].lastOut = "commit" /\ ~res[k].superseded)
         => (currentSong # None /\ isSameSong(currentSong[1], res[k].song))

\* C2: in every reachable state at most one resolution is in flight with its
\* cancellation signal not set.
C2_AtMostOneUncancelled ==
  Cardinality({k \in Resolutions : Uncancelled(k)}) <= 1

\* C3: a resolution makes at most 3 attempts; two thrown failures and a
\* success on attempt 3 mean exactly 2 delays and a commit on attempt 3; three
\* thrown failures mean no commit, 2 delays (none after the third failure) and
\* the third attempt's error shown.
C3_ThreeAttempts ==
  \A k \in Resolutions :
    LET r == res[k] IN
    /\ r.attempts <= MAX_RETRIES
    /\ (r.committed = MAX_RETRIES /\ r.securityShown = 0)
         => (r.delays = MAX_RETRIES - 1 /\ r.pc = "done"
             /\ currentSong # None /\ isSameSong(currentSong[1], r.song))
    /\ (r.attempts = MAX_RETRIES /\ Thrown(r.lastOut) /\ r.securityShown = 0)
         => (r.pc = "done" /\ r.committed = 0 /\ r.delays = MAX_RETRIES - 1
             /\ r.surfaced = <<MAX_RETRIES>>)

C3_Witness ==
  \E k \in Resolutions :
    res[k].committed = MAX_RETRIES /\ res[k].securityShown = 0 /\ res[k].delays = 2

C3_WitnessExhausted ==
  \E k \in Resolutions :
    res[k].attempts = MAX_RETRIES /\ Thrown(res[k].lastOut) /\ res[k].securityShown = 0

\* C4: a cross-origin/security error ends the resolution at once: no further
\* attempt, isPlaying false, an error shown.
C4_SecurityIsTerminal ==
  \A k \in Resolutions :
    res[k].securityShown > 0
      => (res[k].pc = "done" /\ res[k].lastOut = "security" /\ res[k].attempts = 1
          /\ ~isPlaying)

\* C5: an attempt whose response is success-coded with a missing, empty or
\* malformed URL neither sets currentSong nor touches the history.
C5_InvalidUrlNeverCommitted ==
  [][(currentSong' # currentSong \/ playHistory' # playHistory)
       => ~\E i \in Resolutions : \E resp \in Responses(res[i]) :
             /\ resp.kind = "ok"
             /\ newUrlOf(res[i].song, resp) \in InvalidUrls
             /\ FetchDone(i, resp)]_vars

C5_Witness ==
  \E k \in Resolutions : res[k].lastOut = "invalid"

\* C6: a non-retry call made while isLoading is true changes nothing: the
\* resolutions in flight are not cancelled, none is added, and currentSong,
\* isPlaying, isLoading, the history and the search list stay as they are.
C6_BusyCallIsNoOp ==
  [][(isLoading /\ \E song \in Shown, index \in Indices \cup {NoIndex} :
                     onPlaySong(song, index, FALSE))
     => (/\ UNCHANGED <<currentSong, isPlaying, isLoading, playHistory, songs,
                        abortControllerRef>>
         /\ Len(res') = Len(res)
         /\ \A k \in Resolutions : InFlight(k) => res'[k] = res[k])]_vars

C6_Witness ==
  lastCall = "busy" /\ isLoading /\ \E k \in Resolutions : Uncancelled(k)

\* C7: isLoading is true whenever a started resolution has not reached a
\* terminal state; the finalizer of a cancelled resolution does not turn it
\* false while the superseding resolution is in flight.
C7_LoadingWhileResolving ==
  (\E k \in Resolutions : Uncancelled(k)) => isLoading

\* C8: a fresh resolution that fetches the current song's URL ends as
\* successful and leaves isPlaying, currentSong and the history unchanged.
C8_SameUrlChangesNothing ==
  [][\A i \in Resolutions : \A resp \in Responses(res[i]) :
       (FetchDone(i, resp) /\ ~res[i].isRetry /\ resp.kind = "ok"
          /\ currentSong # None
          /\ newUrlOf(res[i].song, resp) = urlOf(currentSong))
       => (/\ UNCHANGED <<isPlaying, currentSong, playHistory>>
           /\ res'[i].pc = "done" /\ res'[i].surfaced = <<>>)]_vars

\* C9: a commit by a fresh resolution sets isPlaying to true, a commit by a
\* retry sets it to the value it had when the retry was requested.
C9_AutoPlay ==
  \A k \in Resolutions :
    (res[k].pc = "done" /\ res[k].lastOut = "commit")
      => isPlaying = (IF res[k].isRetry THEN res[k].sawPlaying ELSE TRUE)

C9_Witness ==
  \E k \in Resolutions :
    res[k].pc = "done" /\ res[k].lastOut = "commit" /\ res[k].isRetry
    /\ ~res[k].sawPlaying /\ ~isPlaying

\* C10: the history never holds more than 50 entries and lists them most
\* recently added first; adding a song of a new identity to a history of 50
\* leaves 50 entries and drops the last one.
C10_Bounded ==
  /\ Len(playHistory) <= HistoryCap
  /\ \A k \in 1..(Len(playHistory) - 1) :
       stamp[Ident(playHistory[k])] > stamp[Ident(playHistory[k + 1])]

C10_Evicts ==
  (/\ Len(playHistory) = HistoryCap
   /\ playHistory' # playHistory
   /\ playHistory' # <<>>
   /\ \A k \in 1..Len(playHistory) : ~isSameSong(playHistory[k], playHistory'[1]))
  => (/\ Len(playHistory') = HistoryCap
      /\ \A k \in 1..(HistoryCap - 1) : playHistory'[k + 1] = playHistory[k])

C10_HistoryCap == [](C10_Bounded) /\ [][C10_Evicts]_vars

C10_Witness ==
  /\ Len(playHistory) = HistoryCap
  /\ playHistory[1].name = ToString(HistoryCap + 1)
  /\ playHistory[HistoryCap].name = ToString(2)
  /\ clock > 0

\* C11: adding a song whose identity is already in the history removes the
\* old entry and puts the new one at the front: the history never holds two
\* entries of one identity, and the other entries keep their relative order.
C11_NoDuplicates ==
  \A j, k \in 1..Len(playHistory) :
    j < k => ~isSameSong(playHistory[j], playHistory[k])

C11_Added(song) ==
  /\ playHistory' # <<>>
  /\ isSameSong(playHistory'[1], song)
  /\ playHistory'[1].url = song.url
  /\ removeFromHistory(playHistory', song)
       = Slice(removeFromHistory(playHistory, song), HistoryCap - 1)

C11_MovesToFront ==
  /\ \A song \in HistSongs : addToHistoryCall(song) => C11_Added(song)
  /\ \A i \in Resolutions : \A resp \in Responses(res[i]) :
       (tryPlay(res[i], resp) = "commit" /\ FetchDone(i, resp))
         => C11_Added(updatedSongOf(res[i], resp))

C11_DedupMoveToFront == [](C11_NoDuplicates) /\ [][C11_MovesToFront]_vars

\* song 1 was the oldest of 50 entries and is the newest now
C11_Witness ==
  /\ Len(playHistory) = HistoryCap
  /\ playHistory[1].name = ToString(1)
  /\ playHistory[HistoryCap].name = ToString(2)
  /\ clock > 0

\* C12: after a commit every entry of the history, the queue and the search
\* list with the resolved song's identity carries its url, lyrics and details;
\* the entries of other identities are unchanged, and the search list keeps
\* its length and order.
C12_Carries(list, u) ==
  \A k \in 1..Len(list) :
    isSameSong(list[k], u)
      => (list[k].url = u.url /\ list[k].lyrics = u.lyrics /\ list[k].details = u.details)

C12_OthersKept(before, after, u) ==
  SelectSeq(after, LAMBDA s : ~isSameSong(s, u))
    = SelectSeq(before, LAMBDA s : ~isSameSong(s, u))

C12_Propagation ==
  [][\A i \in Resolutions : \A resp \in Responses(res[i]) :
       (tryPlay(res[i], resp) = "commit" /\ FetchDone(i, resp))
         => LET u == updatedSongOf(res[i], resp) IN
            /\ C12_Carries(playHistory', u)
            /\ C12_Carries(playQueue', u)
            /\ C12_Carries(songs', u)
            /\ Len(songs') = Len(songs)
            /\ \A k \in 1..Len(songs) : ~isSameSong(songs[k], u) => songs'[k] = songs[k]
            /\ C12_OthersKept(playQueue, playQueue', u)
            /\ removeFromHistory(playHistory', u)
                 = Slice(removeFromHistory(playHistory, u), HistoryCap - 1)]_vars

\* C15: an attempt whose response is success-coded with a missing or invalid
\* URL is a failed attempt: the resolution does not end as successful on it,
\* it is retried, and the third such attempt ends with an error shown,
\* with or without a current song.
C15_InvalidUrlIsRetryable ==
  [][\A i \in Resolutions : \A resp \in Responses(res[i]) :
       (/\ resp.kind = "ok"
        /\ newUrlOf(res[i].song, resp) \in InvalidUrls
        /\ FetchDone(i, resp))
       => (/\ res'[i].committed = 0
           /\ res'[i].lastOut \notin {"same", "commit"}
           /\ IF res[i].attempts < MAX_RETRIES
              THEN res'[i].pc = "delay"
              ELSE res'[i].pc = "done" /\ res'[i].surfaced # <<>>)]_vars

\* C19: with no resolution in flight, a fresh call for a stub that has no url
\* starts a resolution (isLoading becomes true, a fetch is issued), whatever
\* happened before and with or without a current song.
C19_FreshCallStarts ==
  [][\A song \in Range(songs), index \in Indices :
       (/\ \A k \in Resolutions : ~InFlight(k)
        /\ ~song.url.defined
        /\ onPlaySong(song, index, FALSE))
       => (/\ isLoading'
           /\ Len(res') = Len(res) + 1
           /\ res'[Len(res')].pc = "fetch"
           /\ res'[Len(res')].song = song)]_vars

\* C14: a resolution that ends without a commit, because its three attempts
\* failed on non-security errors or because it was cancelled, has left
\* currentSong, isPlaying, the history and the search list as they were.
C14_FailureLeavesState ==
  \A k \in Resolutions :
    (/\ res[k].pc = "done"
     /\ res[k].committed = 0
     /\ \/ res[k].lastOut = "abort"
        \/ Thrown(res[k].lastOut) /\ res[k].securityShown = 0)
    => ~res[k].changed

\* the lists the two providers contributed to the search that just ended
C13_A == Contribution(lastSearch[1].wy, "wy")
C13_B == Contribution(lastSearch[1].qq, "qq")

\* C13: interleaveResults gives A0,B0,A1,B1,... and then the tail of the
\* longer list: len(A)+len(B) items, the A-items and the B-items each in
\* their original order.
C13_RoundRobin ==
  (lastSearch # None /\ ~lastSearch[1].error)
    => /\ Len(songs) = Len(C13_A) + Len(C13_B)
       /\ \A i \in 1..Len(C13_A) :
            songs[IF i <= Len(C13_B) THEN 2 * i - 1 ELSE Len(C13_B) + i] = C13_A[i]
       /\ \A i \in 1..Len(C13_B) :
            songs[IF i <= Len(C13_A) THEN 2 * i ELSE Len(C13_A) + i] = C13_B[i]
       /\ SelectSeq(songs, LAMBDA s : s.platform = "wy") = C13_A
       /\ SelectSeq(songs, LAMBDA s : s.platform = "qq") = C13_B

\* provider A listed more hits than provider B, and B at least one
C13_Witness ==
  /\ lastSearch # None
  /\ ~lastSearch[1].error
  /\ Len(C13_A) = MaxHits
  /\ Len(C13_B) = 1
  /\ songs = <<C13_A[1], C13_B[1], C13_A[2]>> \o SubSeq(C13_A, 3, MaxHits)

\* C17: when one provider's request fails or answers a non-success code and
\* the other succeeds, the search list is the successful provider's results
\* and no search error is shown.
C17_OneProviderDegrades ==
  lastSearch # None =>
    LET wy == lastSearch[1].wy
        qq == lastSearch[1].qq
    IN /\ (wy.kind \in SearchFailures /\ qq.kind \in {"ok", "one"})
            => (songs = Tagged(qq.hits, "qq") /\ ~lastSearch[1].error)
       /\ (qq.kind \in SearchFailures /\ wy.kind = "ok")
            => (songs = Tagged(wy.hits, "wy") /\ ~lastSearch[1].error)

\* C18: for a stub of a search (no requestUrl) the request of the resolver
\* carries index = stub.searchIndex, 0 included, whatever index the caller
\* passed, and the committed song keeps that searchIndex.
C18_RequestUsesSearchIndex ==
  \A k \in Resolutions :
    (/\ res[k].pc # "gone"
     /\ res[k].song.requestUrl = None
     /\ res[k].song.searchIndex # NoIndex)
    => /\ res[k].requestUrl.index = res[k].song.searchIndex
       /\ (res[k].pc = "done" /\ res[k].lastOut = "commit")
            => currentSong[1].searchIndex = res[k].song.searchIndex

\* what C16 asks of a step that goes to the queue neighbour of the current song
C16_Step(neighbour) ==
  IF currentSong = None \/ neighbour = None THEN
    /\ UNCHANGED <<currentSong, isPlaying, isLoading, playHistory, playQueue, songs,
                   abortControllerRef>>
    /\ Len(res') = Len(res)
  ELSE IF neighbour[1].url.defined /\ neighbour[1].url # EmptyUrl THEN
    /\ currentSong' = neighbour
    /\ isPlaying'
    /\ Len(res') = Len(res)
    /\ \A k \in Resolutions : InFlight(k) => res'[k].attempts = res[k].attempts
    /\ UNCHANGED <<isLoading, abortControllerRef>>
  ELSE
    /\ UNCHANGED currentSong
    /\ \/ lastCall' \in {"busy", "skip"}
       \/ /\ Len(res') = Len(res) + 1
          /\ res'[Len(res')].song = neighbour[1]
          /\ res'[Len(res')].pc = "fetch"
          /\ ~res'[Len(res')].isRetry

\* C16: playNextSong, playPreviousSong and auto-advance make a neighbour that
\* has a url the current song with isPlaying true and no fetch, hand a
\* neighbour without url to the resolver, and change nothing when there is no
\* current song or no neighbour.
C16_QueueNavigation ==
  [][/\ playNextSong => C16_Step(getNextSong(playQueue, currentSong))
     /\ playPreviousSong => C16_Step(getPreviousSong(playQueue, currentSong))
     /\ autoAdvance => C16_Step(getNextSong(playQueue, currentSong))]_vars

C16_Witness ==
  /\ lastCall = "direct"
  /\ isPlaying
  /\ currentSong # None
  /\ currentSong[1] \in Range(playQueue)
  /\ ~isSameSong(currentSong[1], SavedSong)

\* C20: a song that playNextSong, playPreviousSong or auto-advance made
\* current is not replaced as currentSong by the commit of a resolution that
\* was in flight at that moment.
C20_DirectCommitStays ==
  [][\A i \in Resolutions : \A resp \in Responses(res[i]) :
       (/\ res[i].overtaken # None
        /\ currentSong = res[i].overtaken
        /\ FetchDone(i, resp))
       => currentSong' = currentSong]_vars

====
